---- MODULE Spec2Model ----
(***************************************************************************)
(* Acquisition / caching orchestration of the Spotify web visualizer.      *)
(*                                                                         *)
(*   src/src/App.js             fetchPlaybackState: the 1 Hz playback poll, *)
(*                              the 800 ms debounce timer and the async     *)
(*                              acquisition pipeline started by the timer   *)
(*   src/src/youtubeService.js  YouTubeService: processing lock, current /  *)
(*                              last-completed track, 403 block flag, rate  *)
(*                              limiter, YouTube URL caches                 *)
(*   src/unnamed/part_009       the Express server: MP3 and analysis caches *)
(*                                                                         *)
(* The model covers a mounted, logged-in App.  One action is one run of    *)
(* JavaScript between two real suspensions (a network response, a timer):  *)
(* the return of an async function and the caller's continuation run back  *)
(* to back and are one action.                                             *)
(***************************************************************************)
EXTENDS Integers, FiniteSets, Sequences, TLC

\* ---------------------------------------------------------------- bounds
\* number of accepted poll events (track changes and no-track polls)
MaxGen == 3

\* ---------------------------------------------------------------- inputs
\* Spotify track ids the poll can report; 0 stands for null
TrackIds == {1, 2}

\* artist and track name the poll reports for an id
TrackName(id) == IF id = 1 THEN "Ann Song?" ELSE "Bob Tune"

\* sanitizeForKey: lower-case, trim, drop <>:"/\|?*, blanks to _, drop non-word
sanitizeForKey(str) ==
  CASE str = "Ann Song?" -> "ann_song"
    [] str = "Bob Tune"  -> "bob_tune"
    [] OTHER             -> str

KeyOf(id) == sanitizeForKey(TrackName(id))

Keys == {KeyOf(id) : id \in TrackIds}

\* age of a cached YouTube URL, in units of CACHE_DURATION (7 days):
\* 0 is younger, 1 is exactly CACHE_DURATION old, 2 is older; -1 is no entry
CACHE_DURATION == 1
NoEntry == -1
Ages == {0, 1, 2}

VARIABLES
  currentTrackIdRef,      \* App.js ref: id of the track being shown, 0 = null
  isProcessingRef,        \* App.js ref: the orchestrator's single-flight lock
  trackChangeTimerRef,    \* App.js ref: handle of the debounce timer, 0 = null
  timers,                 \* pending setTimeout callbacks: [h, track]
  analysisData,           \* React state handed to the renderer
  isAnalyzing,            \* React state handed to the renderer
  currentProcessingTrack, \* youtubeService: key being processed, "" = null
  lastCompletedTrack,     \* youtubeService: key last completed, "" = null
  processingLock,         \* youtubeService: lock of getMP3ForTrack
  apiBlocked,             \* youtubeService: set by a 403, never reset
  lastApiCallTime,        \* youtubeService: number of the last API request
  windowElapsed,          \* requests whose 2000 ms window has passed
  localStorage,           \* key -> age of the stored YouTube URL
  memoryCache,            \* key -> age of the in-memory YouTube URL
  mp3Files,               \* server: keys with an MP3 in mp3files/
  analysisFiles,          \* server: keys with a JSON in analysis/
  acq,                    \* acquisition pipelines, indexed by generation
  gen,                    \* accepted poll events so far (history)
  holder,                 \* which acquisition set each flag (history)
  event,                  \* the last step taken (history)
  args,                   \* arguments of the audioAnalysisService call made
  ret,                    \* what that call returned
  essentia,               \* audioAnalysisService: the instance, 0 = null
  isEssentiaLoaded,       \* audioAnalysisService: set once the load succeeded
  loadingPromise,         \* audioAnalysisService: number of the promise, 0 = null
  attempts,               \* the promises loadEssentia created, and their bodies
  scripts,                \* script elements appended to document.head
  callers                 \* what each caller of loadEssentia got

vars == <<currentTrackIdRef, isProcessingRef, trackChangeTimerRef, timers,
          analysisData, isAnalyzing, currentProcessingTrack,
          lastCompletedTrack, processingLock, apiBlocked, lastApiCallTime,
          windowElapsed, localStorage, memoryCache, mp3Files, analysisFiles,
          acq, gen, holder, event, args, ret, essentia, isEssentiaLoaded,
          loadingPromise, attempts, scripts, callers>>

\* the orchestration state, which the calls checked on their own leave alone
orchVars == <<currentTrackIdRef, isProcessingRef, trackChangeTimerRef, timers,
              analysisData, isAnalyzing, currentProcessingTrack,
              lastCompletedTrack, processingLock, apiBlocked,
              lastApiCallTime, windowElapsed, localStorage, memoryCache,
              mp3Files, analysisFiles, acq, gen, holder, event>>
callVars == <<args, ret>>
\* the state of loadEssentia and of its callers
loadVars == <<essentia, isEssentiaLoaded, loadingPromise, attempts, scripts,
              callers>>

appVars == <<currentTrackIdRef, isProcessingRef, trackChangeTimerRef, timers,
             analysisData, isAnalyzing>>
ytVars == <<currentProcessingTrack, lastCompletedTrack, processingLock>>
rateVars == <<lastApiCallTime, windowElapsed>>
urlVars == <<localStorage, memoryCache>>
serverVars == <<mp3Files, analysisFiles>>

NoData == [track |-> 0, gen |-> 0, src |-> "none"]
NoAcq == [track |-> 0, pc |-> "idle", calls |-> {}, epoch |-> 0,
          res |-> FALSE]
DoneAcq == [NoAcq EXCEPT !.pc = "done"]
NoHolder == [proc |-> 0, analyzing |-> 0, lock |-> 0, cpt |-> 0]
NoArgs == [fn |-> "none"]
NoRet == [fn |-> "none"]

Gens == 1..MaxGen

\* callers of loadEssentia: the preload effect and the analyses after it
MaxCallers == 5
Callers == 1..MaxCallers

\* audioAnalysisService as the module is evaluated (17-21), nobody calling
NotLoaded ==
  /\ essentia = 0
  /\ isEssentiaLoaded = FALSE
  /\ loadingPromise = 0
  /\ attempts = <<>>
  /\ scripts = <<>>
  /\ callers = [c \in Callers |-> [pc |-> "idle", got |-> 0]]

\* pipelines between the timer callback's start and its final return
InFlight == {g \in Gens : acq[g].pc \notin {"idle", "debouncing", "done"}}

Init ==
  /\ currentTrackIdRef = 0
  /\ isProcessingRef = FALSE
  /\ trackChangeTimerRef = 0
  /\ timers = {}
  /\ analysisData = NoData
  /\ isAnalyzing = FALSE
  /\ currentProcessingTrack = ""
  /\ lastCompletedTrack = ""
  /\ processingLock = FALSE
  /\ apiBlocked = FALSE
  /\ lastApiCallTime = 0
  /\ windowElapsed = 0
  /\ localStorage = [k \in Keys |-> NoEntry]
  /\ memoryCache = [k \in Keys |-> NoEntry]
  \* what earlier runs left on the server: files of the first song, or none
  /\ mp3Files \in SUBSET {KeyOf(1)}
  /\ analysisFiles \in SUBSET {KeyOf(1)}
  /\ acq = [g \in Gens |-> NoAcq]
  /\ gen = 0
  /\ holder = NoHolder
  /\ event = [kind |-> "init", g |-> 0]
  /\ args = NoArgs
  /\ ret = NoRet
  /\ NotLoaded

Ev(kind, g) == [kind |-> kind, g |-> g]

\* a step of the orchestration records its event
Emit(kind, g) ==
  /\ event' = Ev(kind, g)
  /\ UNCHANGED <<callVars, loadVars>>

\* ------------------------------------------------------- youtubeService
\* shouldContinue(artistName, songName) on the given service state
shouldContinue(key, cpt, lct) ==
  IF cpt # "" THEN cpt = key
  ELSE IF lct # "" THEN lct = key
  ELSE FALSE

\* a cancelCurrentProcessing that forgets to release the lock
cancelKeepsLock ==
  /\ currentProcessingTrack' = ""
  /\ lastCompletedTrack' = ""
  /\ UNCHANGED processingLock

\* cancelCurrentProcessing()
cancelCurrentProcessing ==
  /\ currentProcessingTrack' = ""
  /\ lastCompletedTrack' = ""
  /\ processingLock' = FALSE

\* ------------------------------------------------------------ the poll
\* a clearTimeout that cancels nothing
clearTimeoutNoop(ts, h) == ts

\* clearTimeout(trackChangeTimerRef.current)
clearTimeout(ts, h) == {tm \in ts : tm.h # h}

\* poll reports a track other than the current one, lock free
PollTrackChange(t) ==
  /\ gen < MaxGen
  /\ t # currentTrackIdRef
  /\ ~isProcessingRef
  /\ gen' = gen + 1
  /\ currentTrackIdRef' = t
  /\ analysisData' = NoData
  /\ cancelCurrentProcessing
  /\ holder' = [holder EXCEPT !.lock = 0, !.cpt = 0]
  \* cancel the pending timer, then setTimeout
  /\ timers' = clearTimeout(timers, trackChangeTimerRef)
                 \cup {[h |-> gen + 1, track |-> t]}
  /\ trackChangeTimerRef' = gen + 1
  /\ acq' = [acq EXCEPT ![gen + 1] =
               [NoAcq EXCEPT !.pc = "debouncing", !.track = t]]
  /\ Emit("trackChange", gen + 1)
  /\ UNCHANGED <<isProcessingRef, isAnalyzing, apiBlocked, rateVars, urlVars,
                 serverVars>>

\* a poll that updates the ref before it looks at the lock
PollTrackChangeLockedLate(t) ==
  /\ t # currentTrackIdRef
  /\ isProcessingRef
  /\ currentTrackIdRef' = t
  /\ Emit("trackChangeLocked", 0)
  /\ UNCHANGED <<isProcessingRef, trackChangeTimerRef, timers, analysisData,
                 isAnalyzing, ytVars, apiBlocked, rateVars, urlVars,
                 serverVars, acq, gen, holder>>

\* poll reports a track other than the current one while the lock is held
PollTrackChangeLocked(t) ==
  /\ t # currentTrackIdRef
  /\ isProcessingRef
  /\ Emit("trackChangeLocked", 0)
  /\ UNCHANGED <<appVars, ytVars, apiBlocked, rateVars, urlVars, serverVars,
                 acq, gen, holder>>

\* a poll of the current track that re-arms the debounce timer when the
\* track has no timeline and nothing is running (an automatic retry)
PollSameTrackRetries(t) ==
  /\ t = currentTrackIdRef
  /\ IF analysisData = NoData /\ ~isProcessingRef /\ timers = {}
        /\ gen < MaxGen
     THEN /\ gen' = gen + 1
          /\ timers' = {[h |-> gen + 1, track |-> t]}
          /\ trackChangeTimerRef' = gen + 1
          /\ acq' = [acq EXCEPT ![gen + 1] =
                       [NoAcq EXCEPT !.pc = "debouncing", !.track = t]]
     ELSE UNCHANGED <<gen, timers, trackChangeTimerRef, acq>>
  /\ Emit("sameTrack", 0)
  /\ UNCHANGED <<currentTrackIdRef, isProcessingRef, analysisData,
                 isAnalyzing, ytVars, apiBlocked, rateVars, urlVars,
                 serverVars, holder>>

\* poll reports the current track again
PollSameTrack(t) ==
  /\ t = currentTrackIdRef
  /\ Emit("sameTrack", 0)
  /\ UNCHANGED <<appVars, ytVars, apiBlocked, rateVars, urlVars, serverVars,
                 acq, gen, holder>>

\* a no-track poll that leaves isProcessingRef as it is
PollNoTrackKeepsLock ==
  /\ gen < MaxGen
  /\ gen' = gen + 1
  /\ analysisData' = NoData
  /\ currentTrackIdRef' = 0
  /\ timers' = clearTimeout(timers, trackChangeTimerRef)
  /\ trackChangeTimerRef' = 0
  /\ cancelCurrentProcessing
  /\ holder' = [holder EXCEPT !.lock = 0, !.cpt = 0]
  /\ Emit("noTrack", gen + 1)
  /\ UNCHANGED <<isProcessingRef, isAnalyzing, apiBlocked, rateVars, urlVars,
                 serverVars, acq>>

\* poll reports that nothing is playing
PollNoTrack ==
  /\ gen < MaxGen
  /\ gen' = gen + 1
  /\ analysisData' = NoData
  /\ currentTrackIdRef' = 0
  /\ timers' = clearTimeout(timers, trackChangeTimerRef)
  /\ trackChangeTimerRef' = 0
  /\ cancelCurrentProcessing
  /\ isProcessingRef' = FALSE
  /\ holder' = [holder EXCEPT !.lock = 0, !.cpt = 0, !.proc = 0]
  /\ Emit("noTrack", gen + 1)
  /\ UNCHANGED <<isAnalyzing, apiBlocked, rateVars, urlVars, serverVars, acq>>

\* ------------------------------------------------ the debounce timer
\* the setTimeout callback of fetchPlaybackState runs
TimerFires(tm) ==
  /\ tm \in timers
  /\ timers' = timers \ {tm}
  /\ trackChangeTimerRef' = 0
  /\ IF tm.track # currentTrackIdRef \/ isProcessingRef
     THEN /\ Emit("timerAbort", tm.h)
          /\ UNCHANGED <<isProcessingRef, isAnalyzing, acq, holder>>
     ELSE /\ isProcessingRef' = TRUE
          /\ isAnalyzing' = TRUE
          /\ acq' = [acq EXCEPT ![tm.h] =
                       [track |-> tm.track, pc |-> "getCachedAnalysis",
                        calls |-> {"getCachedAnalysis"}, epoch |-> 0,
                        res |-> FALSE]]
          /\ holder' = [holder EXCEPT !.proc = tm.h, !.analyzing = tm.h]
          /\ Emit("start", tm.h)
  /\ UNCHANGED <<currentTrackIdRef, analysisData, ytVars, apiBlocked,
                 rateVars, urlVars, serverVars, gen>>

\* --------------------------------------------------- pipeline helpers
\* the pipeline of generation g returns for good
Done(g, outcome) ==
  /\ acq' = [acq EXCEPT ![g] = DoneAcq]
  /\ Emit(outcome, g)

\* the pipeline of generation g suspends in the call named pc; lost says
\* that the cache check it resumed from failed although the file exists
Continue(g, pc, lost) ==
  /\ acq' = [acq EXCEPT ![g].pc = pc,
                        ![g].calls = @ \cup {pc} \cup
                                     (IF lost THEN {"cacheError"} ELSE {})]
  /\ Emit("step", g)

Timeline(g, src) == [track |-> acq[g].track, gen |-> g, src |-> src]

\* setIsAnalyzing(false); isProcessingRef.current = false
ReleaseApp(h) == [h EXCEPT !.proc = 0, !.analyzing = 0]

\* check-analysis-cache / get-analysis answer for a key
getCachedAnalysis(key, files, ok) == ok /\ key \in files

\* check-mp3-cache answer for a key (null when the request fails)
checkServerCache(key, files, ok) == ok /\ key \in files

\* a loadFromLocalStorage that never expires an entry
loadFromLocalStorageNoExpiry(age) == age # NoEntry

\* loadFromLocalStorage: the entry is returned unless older than 7 days
loadFromLocalStorage(age) == age # NoEntry /\ ~(age > CACHE_DURATION)

\* loadFromLocalStorage removes an expired entry
AfterLoad(store, key) ==
  IF store[key] # NoEntry /\ store[key] > CACHE_DURATION
  THEN [store EXCEPT ![key] = NoEntry] ELSE store

\* isValidCache: the memory entry is younger than 7 days
isValidCache(age) == age # NoEntry /\ age < CACHE_DURATION

\* analyzeAudio stores the timeline it computed under the track's key
SaveAnalysis(files, key) == files \cup {key}

\* ---------------------------------------------------- App.js step 1
\* a step 1 without the return of App.js 180: it publishes and goes on
ResumeGetCachedAnalysisNoReturn(g, ok) ==
  /\ acq[g].pc = "getCachedAnalysis"
  /\ IF getCachedAnalysis(KeyOf(acq[g].track), analysisFiles, ok)
     THEN /\ analysisData' = Timeline(g, "analysisCache")
          /\ isAnalyzing' = FALSE
          /\ isProcessingRef' = FALSE
          /\ holder' = ReleaseApp(holder)
     ELSE UNCHANGED <<analysisData, isAnalyzing, isProcessingRef, holder>>
  /\ Continue(g, "checkServerCache", FALSE)
  /\ UNCHANGED <<currentTrackIdRef, trackChangeTimerRef, timers, ytVars,
                 apiBlocked, rateVars, urlVars, serverVars, gen>>

\* getCachedAnalysis answers (App.js 172-181)
ResumeGetCachedAnalysis(g, ok) ==
  /\ acq[g].pc = "getCachedAnalysis"
  /\ IF getCachedAnalysis(KeyOf(acq[g].track), analysisFiles, ok)
     THEN /\ analysisData' = Timeline(g, "analysisCache")
          /\ isAnalyzing' = FALSE
          /\ isProcessingRef' = FALSE
          /\ holder' = ReleaseApp(holder)
          /\ Done(g, "published")
     ELSE /\ Continue(g, "checkServerCache",
                      KeyOf(acq[g].track) \in analysisFiles)
          /\ UNCHANGED <<analysisData, isAnalyzing, isProcessingRef, holder>>
  /\ UNCHANGED <<currentTrackIdRef, trackChangeTimerRef, timers, ytVars,
                 apiBlocked, rateVars, urlVars, serverVars, gen>>

\* ---------------------------------------------------- App.js step 2
\* checkServerCache answers with a hit (App.js 185-190)
ResumeCheckServerCacheHit(g) ==
  /\ acq[g].pc = "checkServerCache"
  /\ checkServerCache(KeyOf(acq[g].track), mp3Files, TRUE)
  /\ Continue(g, "analyzeCached", FALSE)
  /\ UNCHANGED <<appVars, ytVars, apiBlocked, rateVars, urlVars, serverVars,
                 gen, holder>>

\* a step 2 without the return of App.js 198: it goes on to step 3
ResumeAnalyzeCachedNoReturn(g, ok) ==
  /\ acq[g].pc = "analyzeCached"
  /\ Continue(g, "ytCheckServerCache", FALSE)
  /\ UNCHANGED <<appVars, ytVars, apiBlocked, rateVars, urlVars, serverVars,
                 gen, holder>>

\* analyzeAudio of the cached MP3 returns or throws (App.js 190-199, 251-255)
ResumeAnalyzeCached(g, ok) ==
  /\ acq[g].pc = "analyzeCached"
  /\ IF ~ok
     THEN /\ isAnalyzing' = FALSE
          /\ isProcessingRef' = FALSE
          /\ holder' = ReleaseApp(holder)
          /\ Done(g, "failed")
          /\ UNCHANGED <<analysisData, analysisFiles>>
     ELSE /\ analysisFiles' = SaveAnalysis(analysisFiles, KeyOf(acq[g].track))
          /\ IF acq[g].track = currentTrackIdRef
             THEN /\ analysisData' = Timeline(g, "cachedMp3")
                  /\ isAnalyzing' = FALSE
                  /\ isProcessingRef' = FALSE
                  /\ holder' = ReleaseApp(holder)
                  /\ Done(g, "published")
             ELSE /\ Done(g, "stale")
                  /\ UNCHANGED <<analysisData, isAnalyzing, isProcessingRef,
                                 holder>>
  /\ UNCHANGED <<currentTrackIdRef, trackChangeTimerRef, timers, ytVars,
                 apiBlocked, rateVars, urlVars, mp3Files, gen>>

\* ------------------------------- getMP3ForTrack: returns to App.js
\* getMP3ForTrack returned null: App.js 216-223 releases its flags
ReturnNull(g, cpt, outcome) ==
  /\ currentProcessingTrack' = cpt
  /\ processingLock' = FALSE
  /\ UNCHANGED lastCompletedTrack
  /\ isAnalyzing' = FALSE
  /\ isProcessingRef' = FALSE
  /\ holder' = [holder EXCEPT !.proc = 0, !.analyzing = 0, !.lock = 0,
                              !.cpt = IF cpt = "" THEN 0 ELSE @]
  /\ Done(g, outcome)

\* getMP3ForTrack 648-656, 673-678: no video or no MP3
GiveUp(g, outcome) == ReturnNull(g, "", outcome)

\* getMP3ForTrack 621-625, 660-664, 681-685: shouldContinue failed
AbortStale(g) == ReturnNull(g, currentProcessingTrack, "stale")

\* getMP3ForTrack marks the track completed and returns the MP3; App.js
\* 227-236 re-checks shouldContinue and starts analyzeAudio
ReturnMp3(g) ==
  LET key == KeyOf(acq[g].track) IN
  /\ lastCompletedTrack' = key
  /\ currentProcessingTrack' = ""
  /\ processingLock' = FALSE
  /\ IF shouldContinue(key, "", key)
     THEN /\ Continue(g, "analyzeAudio", FALSE)
          /\ holder' = [holder EXCEPT !.lock = 0, !.cpt = 0]
          /\ UNCHANGED <<isAnalyzing, isProcessingRef>>
     ELSE /\ Done(g, "stale")
          /\ isAnalyzing' = FALSE
          /\ isProcessingRef' = FALSE
          /\ holder' = NoHolder

\* searchVideo returned a video: getMP3ForTrack 660-671 posts /get-mp3
AfterSearchFound(g) ==
  IF shouldContinue(KeyOf(acq[g].track), currentProcessingTrack,
                    lastCompletedTrack)
  THEN /\ Continue(g, "getMP3", FALSE)
       /\ UNCHANGED <<ytVars, isAnalyzing, isProcessingRef, holder>>
  ELSE AbortStale(g)

\* ---------------------------------------------------- App.js step 3
\* checkServerCache answers with a miss (App.js 185-223): the blocked
\* check, then getMP3ForTrack up to its first await.  apiBlocked is false
\* when getMP3ForTrack is entered (nothing runs between App.js 203 and 214),
\* so its cache-only branch (youtubeService.js 577-596) is never taken.
ResumeCheckServerCacheMiss(g, ok) ==
  /\ acq[g].pc = "checkServerCache"
  /\ ~checkServerCache(KeyOf(acq[g].track), mp3Files, ok)
  /\ IF apiBlocked
     THEN /\ isAnalyzing' = FALSE
          /\ isProcessingRef' = FALSE
          /\ holder' = ReleaseApp(holder)
          /\ Done(g, IF KeyOf(acq[g].track) \in mp3Files
                         \/ "cacheError" \in acq[g].calls
                      THEN "blockedCacheError" ELSE "blocked")
          /\ UNCHANGED ytVars
     ELSE IF processingLock
     THEN /\ isAnalyzing' = FALSE
          /\ isProcessingRef' = FALSE
          /\ holder' = ReleaseApp(holder)
          /\ Done(g, "rejected")
          /\ UNCHANGED ytVars
     ELSE /\ processingLock' = TRUE
          /\ currentProcessingTrack' = KeyOf(acq[g].track)
          /\ holder' = [holder EXCEPT !.lock = g, !.cpt = g]
          /\ Continue(g, "ytCheckServerCache",
                      KeyOf(acq[g].track) \in mp3Files)
          /\ UNCHANGED <<lastCompletedTrack, isAnalyzing, isProcessingRef>>
  /\ UNCHANGED <<currentTrackIdRef, trackChangeTimerRef, timers, analysisData,
                 apiBlocked, rateVars, urlVars, serverVars, gen>>

\* ------------------------------------------- getMP3ForTrack step 1
\* its checkServerCache answers with a hit (youtubeService.js 615-642)
ResumeYtServerCacheHit(g) ==
  /\ acq[g].pc = "ytCheckServerCache"
  /\ checkServerCache(KeyOf(acq[g].track), mp3Files, TRUE)
  /\ IF shouldContinue(KeyOf(acq[g].track), currentProcessingTrack,
                       lastCompletedTrack)
     THEN ReturnMp3(g)
     ELSE AbortStale(g)
  /\ UNCHANGED <<currentTrackIdRef, trackChangeTimerRef, timers, analysisData,
                 apiBlocked, rateVars, urlVars, serverVars, gen>>

\* ------------------------------------------- getMP3ForTrack step 2
\* its checkServerCache answers with a miss: searchVideo up to its first
\* await (youtubeService.js 392-431, 290-301, 646-671)
ResumeYtServerCacheMiss(g, ok) ==
  LET key == KeyOf(acq[g].track) IN
  /\ acq[g].pc = "ytCheckServerCache"
  /\ ~checkServerCache(key, mp3Files, ok)
  /\ IF apiBlocked
     THEN /\ GiveUp(g, "noVideo")
          /\ UNCHANGED <<rateVars, localStorage>>
     ELSE IF loadFromLocalStorage(localStorage[key])
     THEN /\ AfterSearchFound(g)
          /\ UNCHANGED <<rateVars, localStorage>>
     ELSE /\ localStorage' = AfterLoad(localStorage, key)
          /\ IF isValidCache(memoryCache[key])
             THEN /\ AfterSearchFound(g)
                  /\ UNCHANGED rateVars
             ELSE IF windowElapsed < lastApiCallTime
             THEN /\ acq' = [acq EXCEPT ![g].pc = "rateLimitWait",
                                        ![g].epoch = lastApiCallTime,
                                        ![g].calls = @ \cup {"rateLimitWait"}]
                  /\ Emit("step", g)
                  /\ UNCHANGED <<rateVars, ytVars, isAnalyzing,
                                 isProcessingRef, holder>>
             ELSE /\ lastApiCallTime' = lastApiCallTime + 1
                  /\ Continue(g, "youtubeFetch", FALSE)
                  /\ UNCHANGED <<windowElapsed, ytVars, isAnalyzing,
                                 isProcessingRef, holder>>
  /\ UNCHANGED <<currentTrackIdRef, trackChangeTimerRef, timers, analysisData,
                 apiBlocked, memoryCache, serverVars, gen>>

\* 2000 ms have passed since the oldest request whose window was open
WindowElapses ==
  /\ windowElapsed < lastApiCallTime
  /\ windowElapsed' = windowElapsed + 1
  /\ Emit("time", 0)
  /\ UNCHANGED <<appVars, ytVars, apiBlocked, lastApiCallTime, urlVars,
                 serverVars, acq, gen, holder>>

\* the setTimeout of rateLimitedFetch expires: the request is issued
\* (youtubeService.js 297-301)
ResumeRateLimitWait(g) ==
  /\ acq[g].pc = "rateLimitWait"
  /\ windowElapsed >= acq[g].epoch
  /\ lastApiCallTime' = lastApiCallTime + 1
  /\ acq' = [acq EXCEPT ![g].pc = "youtubeFetch", ![g].epoch = 0,
                        ![g].calls = @ \cup {"youtubeFetch"}]
  /\ Emit("step", g)
  /\ UNCHANGED <<appVars, ytVars, apiBlocked, windowElapsed, urlVars,
                 serverVars, gen, holder>>

\* the YouTube API answers (youtubeService.js 431-488, 646-671)
Responses == {"ok", "forbidden", "none"}

ResumeYoutubeFetch(g, resp, stored) ==
  LET key == KeyOf(acq[g].track) IN
  /\ acq[g].pc = "youtubeFetch"
  /\ IF resp = "forbidden"
     THEN /\ apiBlocked' = TRUE
          /\ GiveUp(g, "noVideo")
          /\ UNCHANGED urlVars
     ELSE IF resp = "none"
     THEN /\ GiveUp(g, "noVideo")
          /\ UNCHANGED <<apiBlocked, urlVars>>
     ELSE /\ localStorage' = IF stored THEN [localStorage EXCEPT ![key] = 0]
                             ELSE localStorage
          /\ memoryCache' = [memoryCache EXCEPT ![key] = 0]
          /\ AfterSearchFound(g)
          /\ UNCHANGED apiBlocked
  /\ UNCHANGED <<currentTrackIdRef, trackChangeTimerRef, timers, analysisData,
                 rateVars, serverVars, gen>>

\* ------------------------------------------- getMP3ForTrack step 3
\* POST /get-mp3 with clearOld on the server (part_009 216-291): a cached
\* file is returned; otherwise every other MP3 is deleted and yt-dlp runs
getMp3Files(files, key, ok) ==
  IF key \in files THEN files
  ELSE IF ok THEN {key} ELSE {}

Outcomes == {"ok", "fail", "unreachable"}

ServerGetMp3(g, out) ==
  LET key == KeyOf(acq[g].track) IN
  /\ acq[g].pc = "getMP3"
  /\ IF out = "unreachable"
     THEN /\ acq' = [acq EXCEPT ![g].pc = "getMP3Response", ![g].res = FALSE]
          /\ UNCHANGED mp3Files
     ELSE /\ mp3Files' = getMp3Files(mp3Files, key, out = "ok")
          /\ acq' = [acq EXCEPT ![g].pc = "getMP3Response",
                                ![g].res = (key \in mp3Files \/ out = "ok")]
  /\ Emit("server", g)
  /\ UNCHANGED <<appVars, ytVars, apiBlocked, rateVars, urlVars,
                 analysisFiles, gen, holder>>

\* getMP3 returns (youtubeService.js 671-699, App.js 216-236)
ResumeGetMP3(g) ==
  /\ acq[g].pc = "getMP3Response"
  /\ IF ~acq[g].res
     THEN GiveUp(g, "noMp3")
     ELSE IF shouldContinue(KeyOf(acq[g].track), currentProcessingTrack,
                            lastCompletedTrack)
     THEN ReturnMp3(g)
     ELSE AbortStale(g)
  /\ UNCHANGED <<currentTrackIdRef, trackChangeTimerRef, timers, analysisData,
                 apiBlocked, rateVars, urlVars, serverVars, gen>>

\* ---------------------------------------------------- App.js step 4
\* analyzeAudio of the downloaded MP3 returns or throws (App.js 236-255)
ResumeAnalyzeAudio(g, ok) ==
  /\ acq[g].pc = "analyzeAudio"
  /\ isAnalyzing' = FALSE
  /\ isProcessingRef' = FALSE
  /\ holder' = ReleaseApp(holder)
  /\ IF ~ok
     THEN /\ Done(g, "failed")
          /\ UNCHANGED <<analysisData, analysisFiles>>
     ELSE /\ analysisFiles' = SaveAnalysis(analysisFiles, KeyOf(acq[g].track))
          /\ IF shouldContinue(KeyOf(acq[g].track), currentProcessingTrack,
                               lastCompletedTrack)
             THEN /\ analysisData' = Timeline(g, "pipeline")
                  /\ Done(g, "published")
             ELSE /\ Done(g, "stale")
                  /\ UNCHANGED analysisData
  /\ UNCHANGED <<currentTrackIdRef, trackChangeTimerRef, timers, ytVars,
                 apiBlocked, rateVars, urlVars, mp3Files, gen>>

\* ------------------------------------------------------------- time
\* the cached YouTube URL of a key grows older (Date.now() advances)
CacheAges(k) ==
  /\ \/ localStorage[k] \in {0, 1}
     \/ memoryCache[k] \in {0, 1}
  /\ localStorage' = [localStorage EXCEPT
                        ![k] = IF @ \in {0, 1} THEN @ + 1 ELSE @]
  /\ memoryCache' = [memoryCache EXCEPT
                       ![k] = IF @ \in {0, 1} THEN @ + 1 ELSE @]
  /\ Emit("time", 0)
  /\ UNCHANGED <<appVars, ytVars, apiBlocked, rateVars, serverVars, acq, gen,
                 holder>>

\* ---------------------------------------------------- specification
\* kinds of event a pipeline leaves
PipelineKinds == {"step", "server", "published", "stale", "failed", "blocked",
                  "blockedCacheError", "rejected", "noVideo", "noMp3"}

Step(g) ==
  \/ \E ok \in BOOLEAN : ResumeGetCachedAnalysis(g, ok)
  \/ ResumeCheckServerCacheHit(g)
  \/ \E ok \in BOOLEAN : ResumeCheckServerCacheMiss(g, ok)
  \/ \E ok \in BOOLEAN : ResumeAnalyzeCached(g, ok)
  \/ ResumeYtServerCacheHit(g)
  \/ \E ok \in BOOLEAN : ResumeYtServerCacheMiss(g, ok)
  \/ ResumeRateLimitWait(g)
  \/ \E resp \in Responses, stored \in BOOLEAN :
       ResumeYoutubeFetch(g, resp, stored)
  \/ \E out \in Outcomes : ServerGetMp3(g, out)
  \/ ResumeGetMP3(g)
  \/ \E ok \in BOOLEAN : ResumeAnalyzeAudio(g, ok)

Poll ==
  \/ \E t \in TrackIds : PollTrackChange(t)
  \/ \E t \in TrackIds : PollTrackChangeLocked(t)
  \/ \E t \in TrackIds : PollSameTrack(t)
  \/ PollNoTrack

Timer == \E tm \in timers : TimerFires(tm)

Pipeline == \E g \in Gens : Step(g)

Next ==
  \/ Poll
  \/ Timer
  \/ Pipeline
  \/ WindowElapses

Spec == Init /\ [][Next]_vars

\* the App after a first acquisition (track 2) whose YouTube search was
\* issued and found no video: the state Spec reaches by PollTrackChange(2),
\* the timer, three cache misses, the request and an empty answer
InitAfterSearch ==
  /\ currentTrackIdRef = 2
  /\ isProcessingRef = FALSE
  /\ trackChangeTimerRef = 0
  /\ timers = {}
  /\ analysisData = NoData
  /\ isAnalyzing = FALSE
  /\ currentProcessingTrack = ""
  /\ lastCompletedTrack = ""
  /\ processingLock = FALSE
  /\ apiBlocked = FALSE
  /\ lastApiCallTime = 1
  /\ windowElapsed \in {0, 1}
  /\ localStorage = [k \in Keys |-> NoEntry]
  /\ memoryCache = [k \in Keys |-> NoEntry]
  /\ mp3Files = {}
  /\ analysisFiles = {}
  /\ acq = [g \in Gens |-> NoAcq]
  /\ gen = 0
  /\ holder = NoHolder
  /\ event = [kind |-> "init", g |-> 0]
  /\ args = NoArgs
  /\ ret = NoRet
  /\ NotLoaded

SpecAfterSearch == InitAfterSearch /\ [][Next]_vars

\* the App in a session long enough for cached YouTube URLs to age: the
\* steps of Spec, and the clock passing the 7 days of an entry
NextAging ==
  \/ Next
  \/ \E k \in Keys : CacheAges(k)

\* ------------------------------------------- the orchestration at rest
\* the App before any poll, with empty server caches
Idle ==
  /\ currentTrackIdRef = 0
  /\ isProcessingRef = FALSE
  /\ trackChangeTimerRef = 0
  /\ timers = {}
  /\ analysisData = NoData
  /\ isAnalyzing = FALSE
  /\ currentProcessingTrack = ""
  /\ lastCompletedTrack = ""
  /\ processingLock = FALSE
  /\ apiBlocked = FALSE
  /\ lastApiCallTime = 0
  /\ windowElapsed = 0
  /\ localStorage = [k \in Keys |-> NoEntry]
  /\ memoryCache = [k \in Keys |-> NoEntry]
  /\ mp3Files = {}
  /\ analysisFiles = {}
  /\ acq = [g \in Gens |-> NoAcq]
  /\ gen = 0
  /\ holder = NoHolder
  /\ event = [kind |-> "init", g |-> 0]

\* a fresh page load with nothing on the server and no cached URL
InitAging == Idle /\ NotLoaded /\ args = NoArgs /\ ret = NoRet

SpecAging == InitAging /\ [][NextAging]_vars

\* ------------------------------------- audioAnalysisService: frame query
\* Times are integers in units of 0.01 s.  A frame is named by its place
\* in its series, counted from 1; 0 stands for "no frame" (null).
MaxLen == 4     \* frames in a feature series
MaxTime == 4    \* largest frame time of the series tried
MaxBeats == 5   \* raw beats in a timeline

\* tolerance = 0.05 s, the default of isOnBeat
tolerance == 5

\* beatIndex of a result that has none
NoBeat == -1

Abs(x) == IF x < 0 THEN -x ELSE x

\* ascending sequences of at most n times of T (strictly ascending if strict)
RECURSIVE AscSeqs(_, _, _)
AscSeqs(n, T, strict) ==
  IF n = 0 THEN {<<>>}
  ELSE LET S == AscSeqs(n - 1, T, strict) IN
       S \cup {Append(p[1], p[2]) :
                 p \in {q \in S \X T :
                          \/ q[1] = <<>>
                          \/ q[1][Len(q[1])] < q[2]
                          \/ ~strict /\ q[1][Len(q[1])] = q[2]}}

\* the while loop of findClosestFrame; left and right count from 0
RECURSIVE search(_, _, _, _)
search(frames, time, left, right) ==
  IF left < right
  THEN LET mid == (left + right) \div 2 IN
       IF frames[mid + 1] < time
       THEN search(frames, time, mid + 1, right)
       ELSE search(frames, time, left, mid)
  ELSE left

\* a findClosestFrame that returns where the search stopped
findClosestFrameNoLookBack(frames, time) ==
  IF Len(frames) = 0 THEN 0
  ELSE search(frames, time, 0, Len(frames) - 1) + 1

\* findClosestFrame: frames[left - 1] if it is strictly closer, else
\* frames[left]
findClosestFrame(frames, time) ==
  IF Len(frames) = 0 THEN 0
  ELSE LET left == search(frames, time, 0, Len(frames) - 1) IN
       IF left > 0 /\ Abs(frames[left] - time) < Abs(frames[left + 1] - time)
       THEN left
       ELSE left + 1

\* the for loop of isOnBeat from index i (counted from 0) on.  beatStrength
\* is in units of 1 / (2 * tol): 1 - diff / tol is 2 * (tol - diff) units,
\* and 1.5 times that is 3 * (tol - diff) units.
RECURSIVE scanBeats(_, _, _, _)
scanBeats(time, beats, tol, i) ==
  IF i >= Len(beats)
  THEN [onBeat |-> FALSE, beatStrength |-> 0, beatIndex |-> NoBeat]
  ELSE LET diff == Abs(time - beats[i + 1]) IN
       IF diff < tol
       THEN [onBeat |-> TRUE,
             beatStrength |-> (tol - diff) * (IF i % 4 = 0 THEN 3 ELSE 2),
             beatIndex |-> i]
       ELSE scanBeats(time, beats, tol, i + 1)

\* an isOnBeat that treats every beat as a plain beat
isOnBeatNoDownbeat(time, beats, tol) ==
  LET r == scanBeats(time, beats, tol, 0) IN
  [r EXCEPT !.beatStrength = IF r.onBeat THEN 2 * (tol - Abs(time - beats[r.beatIndex + 1])) ELSE 0]

isOnBeat(time, beats, tol) == scanBeats(time, beats, tol, 0)

\* getAnalysisAtTime: the frame of each feature and the beat info
getAnalysisAtTime(data, timeInSeconds) ==
  LET beatInfo == isOnBeat(timeInSeconds, data.beats, tolerance) IN
  [fn |-> "getAnalysisAtTime",
   mel |-> findClosestFrame(data.melSpectrogram, timeInSeconds),
   chroma |-> findClosestFrame(data.hpcpChroma, timeInSeconds),
   pitch |-> findClosestFrame(data.pitch, timeInSeconds),
   onBeat |-> beatInfo.onBeat,
   beatStrength |-> beatInfo.beatStrength,
   beatIndex |-> beatInfo.beatIndex]

\* the series of a feature of the result
SeriesOf(data, f) ==
  CASE f = "mel" -> data.melSpectrogram
    [] f = "chroma" -> data.hpcpChroma
    [] f = "pitch" -> data.pitch

\* timelines tried: one feature with any ascending series and the others
\* empty or two frames long, or no frames and any ascending list of beats
Series == AscSeqs(MaxLen, 0..MaxTime, FALSE)
ShortSeries == {<<>>, <<1, 3>>}
BeatGrid == {0, 3, 6, 9, 50, 100, 150}
BeatLists == AscSeqs(MaxBeats, BeatGrid, TRUE)
BeatQueries == {0, 1, 2, 4, 5, 8, 11, 20, 48, 55, 102, 149}

Timelines ==
  {[melSpectrogram |-> a, hpcpChroma |-> b, pitch |-> c, beats |-> <<>>] :
     a \in Series, b \in ShortSeries, c \in ShortSeries}
  \cup
  {[melSpectrogram |-> b, hpcpChroma |-> a, pitch |-> c, beats |-> <<>>] :
     a \in Series, b \in ShortSeries, c \in ShortSeries}
  \cup
  {[melSpectrogram |-> b, hpcpChroma |-> c, pitch |-> a, beats |-> <<>>] :
     a \in Series, b \in ShortSeries, c \in ShortSeries}

BeatTimelines ==
  {[melSpectrogram |-> <<>>, hpcpChroma |-> <<>>, pitch |-> <<>>,
    beats |-> l] : l \in BeatLists}

InitQuery ==
  /\ Idle
  /\ NotLoaded
  /\ \/ args \in {[fn |-> "getAnalysisAtTime", analysisData |-> d,
                   timeInSeconds |-> t] :
                    d \in Timelines, t \in 0..(MaxTime + 1)}
     \/ args \in {[fn |-> "getAnalysisAtTime", analysisData |-> d,
                   timeInSeconds |-> t] :
                    d \in BeatTimelines, t \in BeatQueries}
  /\ ret = NoRet

\* the renderer asks for the frame at the playback position
CallGetAnalysisAtTime ==
  /\ args.fn = "getAnalysisAtTime"
  /\ ret = NoRet
  /\ ret' = getAnalysisAtTime(args.analysisData, args.timeInSeconds)
  /\ UNCHANGED <<args, orchVars, loadVars>>

NextQuery == CallGetAnalysisAtTime

SpecQuery == InitQuery /\ [][NextQuery]_vars

\* ------------------------------------- audioAnalysisService: rhythm
\* FRAME_INTERVAL = 0.1 s, in units of 0.01 s
FRAME_INTERVAL == 10

MaxHalfFrames == 5   \* longest signal tried, in half frame intervals
MaxRawBeats == 3     \* ticks the rhythm extractor reports

\* Math.ceil(a / b) for a >= 0, b > 0
Ceil(a, b) == (a + b - 1) \div b

\* validBeats.filter(t => t >= frameStart && t < frameEnd).length
beatsInFrame(validBeats, frameStart, frameEnd) ==
  Cardinality({j \in 1..Len(validBeats) :
                 validBeats[j] >= frameStart /\ validBeats[j] < frameEnd})

\* extractRhythm from the ticks of the rhythm extractor on
\* (audioAnalysisService.js 361-395)
extractRhythm(rawBeats, audioDuration) ==
  LET validBeats == SelectSeq(rawBeats, LAMBDA t : t <= audioDuration)
      numFrames == Ceil(audioDuration, FRAME_INTERVAL)
  IN  [fn |-> "extractRhythm",
       beats |-> validBeats,
       beatDensity |->
         [i \in 1..numFrames |->
            beatsInFrame(validBeats, (i - 1) * FRAME_INTERVAL,
                         (i - 1) * FRAME_INTERVAL + FRAME_INTERVAL)]]

\* durations and raw beat times tried: multiples of half a frame interval
RhythmDurations == {k * (FRAME_INTERVAL \div 2) : k \in 1..MaxHalfFrames}
RawBeatTimes == {k * (FRAME_INTERVAL \div 2) : k \in 0..(MaxHalfFrames + 1)}

InitRhythm ==
  /\ Idle
  /\ NotLoaded
  /\ args \in {[fn |-> "extractRhythm", rawBeats |-> l, duration |-> d] :
                 l \in AscSeqs(MaxRawBeats, RawBeatTimes, TRUE),
                 d \in RhythmDurations}
  /\ ret = NoRet

CallExtractRhythm ==
  /\ args.fn = "extractRhythm"
  /\ ret = NoRet
  /\ ret' = extractRhythm(args.rawBeats, args.duration)
  /\ UNCHANGED <<args, orchVars, loadVars>>

NextRhythm == CallExtractRhythm

SpecRhythm == InitRhythm /\ [][NextRhythm]_vars

\* ------------------------------------- audioAnalysisService: chroma
\* Spectral magnitudes are integers in units of 0.0005.  A normalized value
\* c / maxChroma is kept as the pair [num |-> c, den |-> maxChroma].
MaxBins == 2        \* in-band spectrum bins with energy in one window
MaxMagnitude == 3   \* largest magnitude of a bin

\* the 0.001 that Math.max(...chroma, 0.001) puts under the maximum
CHROMA_FLOOR == 2

PitchClasses == 0..11

\* new Array(12).fill(0) and the loop over the bins: every in-band bin adds
\* its magnitude to its pitch class
RECURSIVE accumulate(_)
accumulate(bins) ==
  IF bins = <<>> THEN [pc \in PitchClasses |-> 0]
  ELSE LET chroma == accumulate(Tail(bins)) IN
       [chroma EXCEPT ![Head(bins).pitchClass] = @ + Head(bins).magnitude]

Max(a, b) == IF a >= b THEN a ELSE b

\* Math.max(...chroma, 0.001)
maxChroma(chroma) ==
  Max(CHOOSE m \in {chroma[pc] : pc \in PitchClasses} :
        \A pc \in PitchClasses : chroma[pc] <= m,
      CHROMA_FLOOR)

\* one frame of extractHPCPChroma from the spectrum of its window on
chromaFrame(bins) ==
  LET chroma == accumulate(bins) IN
  [fn |-> "extractHPCPChroma",
   chroma |-> [pc \in PitchClasses |->
                 [num |-> chroma[pc], den |-> maxChroma(chroma)]]]

\* in-band bins of a window: pitch class and magnitude of each
InBandBins ==
  [pitchClass : PitchClasses, magnitude : 1..MaxMagnitude]

RECURSIVE SeqsUpTo(_, _)
SeqsUpTo(n, S) ==
  IF n = 0 THEN {<<>>}
  ELSE LET R == SeqsUpTo(n - 1, S) IN
       R \cup {Append(q, x) : q \in R, x \in S}

InitChroma ==
  /\ Idle
  /\ NotLoaded
  /\ args \in {[fn |-> "extractHPCPChroma", bins |-> b] :
                 b \in SeqsUpTo(MaxBins, InBandBins)}
  /\ ret = NoRet

CallChromaFrame ==
  /\ args.fn = "extractHPCPChroma"
  /\ ret = NoRet
  /\ ret' = chromaFrame(args.bins)
  /\ UNCHANGED <<args, orchVars, loadVars>>

NextChroma == CallChromaFrame

SpecChroma == InitChroma /\ [][NextChroma]_vars

\* ------------------------------------- audioAnalysisService: mel frames
FRAME_SIZE == 2048
numBands == 40

MaxMelFrames == 6   \* longest signal tried, in frame intervals

\* whole numbers of tenths of a second q, up to 0.8 s, for which the double
\* (q / 10) / 0.1 lies just below q: 0.3 / 0.1 is 2.9999999999999996,
\* 0.6 / 0.1 and 0.7 / 0.1 are 5.999999999999999 and 6.999999999999999
RoundedDown == {3, 6, 7}

\* Math.floor(totalDuration / FRAME_INTERVAL) with totalDuration = n / rate,
\* in IEEE-754 doubles: the exact floor, except where the quotient of a
\* duration that is a whole number of tenths falls below that number
melNumFrames(n, rate) ==
  LET exact == (100 * n) \div (FRAME_INTERVAL * rate) IN
  IF 100 * n = exact * FRAME_INTERVAL * rate /\ exact \in RoundedDown
  THEN exact - 1
  ELSE exact

\* Math.round(frameTime * sampleRate) with frameTime = i * FRAME_INTERVAL
startSample(i, rate) == (2 * i * FRAME_INTERVAL * rate + 100) \div 200

\* audioSignal.slice(startSample, startSample + FRAME_SIZE).length
sliceLength(n, start) ==
  IF start >= n THEN 0
  ELSE IF start + FRAME_SIZE <= n THEN FRAME_SIZE ELSE n - start

\* the iterations lo .. hi - 1 of the for loop of extractMelSpectrogram:
\* the frames they push; fewer than hi - lo frames means the loop broke
\* (the iterations are evaluated by halves to keep the evaluation shallow)
RECURSIVE melLoop(_, _, _, _)
melLoop(n, rate, lo, hi) ==
  IF lo >= hi THEN <<>>
  ELSE IF hi = lo + 1
  THEN IF sliceLength(n, startSample(lo, rate)) < FRAME_SIZE THEN <<>>
       ELSE <<[time |-> lo * FRAME_INTERVAL, bands |-> numBands]>>
  ELSE LET mid == (lo + hi) \div 2
           first == melLoop(n, rate, lo, mid)
       IN  IF Len(first) < mid - lo THEN first
           ELSE first \o melLoop(n, rate, mid, hi)

\* extractMelSpectrogram of a signal of n samples: the frames it returns,
\* each with its time (units of 0.01 s) and its number of bands
extractMelSpectrogram(n, rate) ==
  [fn |-> "extractMelSpectrogram",
   frames |-> melLoop(n, rate, 0, melNumFrames(n, rate))]

\* signals tried: up to MaxMelFrames frame intervals long plus a few
\* samples, at four sample rates, and 180 s at 44100 Hz
SampleRates == {8000, 16000, 22055, 44100}
ExtraSamples == {0, 1, 2047, 2048}
Signals ==
  {[length |-> k * (r \div 10) + d, sampleRate |-> r] :
     k \in 0..MaxMelFrames, d \in ExtraSamples, r \in SampleRates}
  \cup {[length |-> 180 * 44100, sampleRate |-> 44100]}

InitMel ==
  /\ Idle
  /\ NotLoaded
  /\ args \in {[fn |-> "extractMelSpectrogram", audioSignal |-> sig] :
                 sig \in Signals}
  /\ ret = NoRet

CallExtractMelSpectrogram ==
  /\ args.fn = "extractMelSpectrogram"
  /\ ret = NoRet
  /\ ret' = extractMelSpectrogram(args.audioSignal.length,
                                  args.audioSignal.sampleRate)
  /\ UNCHANGED <<args, orchVars, loadVars>>

NextMel == CallExtractMelSpectrogram

SpecMel == InitMel /\ [][NextMel]_vars

\* ------------------------------------- audioAnalysisService: analyzeAudio
Extractors == {"rhythm", "pitch", "melSpectrogram", "hpcpChroma"}

\* what an extractor that works returns for the signal (a stand-in)
Extracted(f) ==
  IF f = "rhythm"
  THEN [bpm |-> 98, beats |-> <<0, 61>>, beatDensity |-> <<1>>,
        confidence |-> 3]
  ELSE <<[time |-> 0, of |-> f]>>

\* the value analyzeAudio starts a feature with (lines 423-426)
Initial(f) ==
  IF f = "rhythm"
  THEN [bpm |-> 120, beats |-> <<>>, beatDensity |-> <<>>, confidence |-> 0]
  ELSE <<>>

\* an awaited call either gives a value or throws
Value(v) == [threw |-> FALSE, value |-> v]
Throws == [threw |-> TRUE, value |-> <<>>]

\* an extractPitch whose promise resolves on an error message, with the
\* frames of that message (there are none)
extractPitchResolvesOnError(outcome) ==
  IF outcome = "onerror" THEN Throws
  ELSE IF outcome = "error" THEN Value(<<"undefined">>)
  ELSE Value(Extracted("pitch"))

\* extractPitch: the promise resolves with the frames of a result message
\* and rejects on an error message or a worker error (lines 313-333)
extractPitch(outcome) ==
  IF outcome \in {"error", "onerror"} THEN Throws
  ELSE Value(Extracted("pitch"))

\* extractRhythm throws when the rhythm extractor does
extractRhythmOutcome(failed) ==
  IF failed THEN Throws ELSE Value(Extracted("rhythm"))

\* extractMelSpectrogram and extractHPCPChroma catch their own errors and
\* return [] (lines 231-234, 294-297)
extractFrames(f, failed) ==
  IF failed THEN Value(<<>>) ELSE Value(Extracted(f))

\* try { x = await extractor } catch { warn }: x keeps its value on a throw
tryCatch(attempt, kept) == IF attempt.threw THEN kept ELSE attempt.value

\* analyzeAudio (lines 403-477): audio says whether the fetch and the
\* decoding work, fails which extractors fail, pitchFailure how pitch does
analyzeAudio(audio, fails, pitchFailure) ==
  IF audio # "ok"
  THEN [fn |-> "analyzeAudio", status |-> "thrown"]
  ELSE [fn |-> "analyzeAudio", status |-> "returned",
        features |->
          [rhythm |->
             tryCatch(extractRhythmOutcome("rhythm" \in fails),
                      Initial("rhythm")),
           pitch |->
             tryCatch(extractPitch(IF "pitch" \in fails THEN pitchFailure
                                   ELSE "result"),
                      Initial("pitch")),
           melSpectrogram |->
             tryCatch(extractFrames("melSpectrogram",
                                    "melSpectrogram" \in fails),
                      Initial("melSpectrogram")),
           hpcpChroma |->
             tryCatch(extractFrames("hpcpChroma", "hpcpChroma" \in fails),
                      Initial("hpcpChroma"))]]

InitAnalyze ==
  /\ Idle
  /\ NotLoaded
  /\ args \in [fn : {"analyzeAudio"},
               audio : {"ok", "fetchError", "decodeError"},
               fails : SUBSET Extractors,
               pitchFailure : {"error", "onerror"}]
  /\ ret = NoRet

CallAnalyzeAudio ==
  /\ args.fn = "analyzeAudio"
  /\ ret = NoRet
  /\ ret' = analyzeAudio(args.audio, args.fails, args.pitchFailure)
  /\ UNCHANGED <<args, orchVars, loadVars>>

NextAnalyze == CallAnalyzeAudio

SpecAnalyze == InitAnalyze /\ [][NextAnalyze]_vars

\* ------------------------------------- server: fuzzy cache lookup
\* Strings are sequences of characters, so that includes, endsWith, split
\* and the character classes of the regular expressions are computed.
Lower ==
  {"a", "b", "c", "d", "e", "f", "g", "h", "i", "j", "k", "l", "m", "n", "o",
   "p", "q", "r", "s", "t", "u", "v", "w", "x", "y", "z"}
Digits == {"0", "1", "2", "3", "4", "5", "6", "7", "8", "9"}

\* String.prototype.toLowerCase on the characters used
toLowerCase(str) ==
  [i \in 1..Len(str) |->
     CASE str[i] = "A" -> "a" [] str[i] = "B" -> "b" [] str[i] = "I" -> "i"
       [] str[i] = "O" -> "o" [] str[i] = "T" -> "t" [] str[i] = "U" -> "u"
       [] str[i] = "W" -> "w" [] OTHER -> str[i]]

\* .replace(/[^a-z0-9\s]/g, ' ')
replaceSpecial(str) ==
  [i \in 1..Len(str) |->
     IF str[i] \in Lower \cup Digits \cup {" "} THEN str[i] ELSE " "]

\* .split(/\s+/): the words between runs of blanks; a leading or trailing
\* run leaves an empty word, as split does
RECURSIVE split(_, _)
split(str, word) ==
  IF str = <<>> THEN <<word>>
  ELSE IF Head(str) = " "
  THEN IF Len(str) > 1 /\ str[2] = " "
       THEN split(Tail(str), word)
       ELSE <<word>> \o split(Tail(str), <<>>)
  ELSE split(Tail(str), Append(word, Head(str)))

StopWords ==
  {<<"t", "h", "e">>,
   <<"a", "n", "d">>,
   <<"f", "o", "r">>,
   <<"f", "r", "o", "m">>,
   <<"w", "i", "t", "h">>,
   <<"f", "e", "a", "t">>,
   <<"f", "e", "a", "t", "u", "r", "i", "n", "g">>}

\* extractKeywords(str), part_009 97-106
extractKeywords(str) ==
  IF str = <<>> THEN <<>>
  ELSE SelectSeq(split(replaceSpecial(toLowerCase(str)), <<>>),
                 LAMBDA word : Len(word) >= 3 /\ word \notin StopWords)

\* String.prototype.includes
includes(hay, needle) ==
  \E i \in 1..(Len(hay) - Len(needle) + 1) :
    SubSeq(hay, i, i + Len(needle) - 1) = needle

\* String.prototype.endsWith
endsWith(str, suffix) ==
  /\ Len(str) >= Len(suffix)
  /\ SubSeq(str, Len(str) - Len(suffix) + 1, Len(str)) = suffix

\* the keywords of a list that the file name contains
matches(filename, keywords) ==
  SelectSeq(keywords, LAMBDA kw : includes(toLowerCase(filename), kw))

\* fuzzyMatchFilename(filename, artistKeywords, songKeywords), part_009
\* 112-125
fuzzyMatchFilename(filename, artistKeywords, songKeywords) ==
  LET hasArtistMatch ==
        \/ Len(artistKeywords) = 0
        \/ Len(matches(filename, artistKeywords)) >= 1
      minSongMatches == Max(1, Ceil(Len(songKeywords), 2))
      hasSongMatch ==
        \/ Len(songKeywords) = 0
        \/ Len(matches(filename, songKeywords)) >= minSongMatches
  IN  hasArtistMatch /\ hasSongMatch

\* no file: the null that findFileByFuzzyMatch returns
NoFile == <<>>

\* findFileByFuzzyMatch(directory, artist, song, extension), part_009
\* 135-155, on the listing of the directory
findFileByFuzzyMatch(listing, artist, song, extension) ==
  LET files == SelectSeq(listing, LAMBDA f : endsWith(f, extension))
      found == SelectSeq(files,
                 LAMBDA f : fuzzyMatchFilename(f, extractKeywords(artist),
                                               extractKeywords(song)))
  IN  IF found = <<>> THEN NoFile ELSE Head(found)

\* artist and song names a request can carry
Names ==
  {<<"U", "2">>,
   <<"I", "f">>,
   <<"O", "n", "e">>,
   <<"T", "h", "e", " ", "W", "h", "o">>,
   <<"B", "o", "b", " ", "T", "u", "n", "e">>,
   <<"A", "n", "n">>,
   <<"!", "!", "!">>}

\* files an earlier acquisition can have left in a cache directory
CacheFiles ==
  {<<"a", "n", "n", "-", "s", "o", "n", "g", ".", "m", "p", "3">>,
   <<"b", "o", "b", "_", "t", "u", "n", "e", "-", "b", "o", "b", "_", "t", "u", "n", "e", ".", "m", "p", "3">>,
   <<"u", "2", "-", "o", "n", "e", ".", "m", "p", "3">>,
   <<"a", "n", "n", "-", "s", "o", "n", "g", ".", "j", "s", "o", "n">>}

Mp3Extension == <<".", "m", "p", "3">>

\* readdirSync: some of the files, in some order
Listings ==
  {<<>>} \cup {<<f>> : f \in CacheFiles}
         \cup {<<p[1], p[2]>> :
                 p \in {q \in CacheFiles \X CacheFiles : q[1] # q[2]}}

InitFuzzy ==
  /\ Idle
  /\ NotLoaded
  /\ args \in [fn : {"findFileByFuzzyMatch"}, listing : Listings,
               artist : Names, song : Names]
  /\ ret = NoRet

CallFindFileByFuzzyMatch ==
  /\ args.fn = "findFileByFuzzyMatch"
  /\ ret = NoRet
  /\ ret' = [fn |-> "findFileByFuzzyMatch",
             file |-> findFileByFuzzyMatch(args.listing, args.artist,
                                           args.song, Mp3Extension)]
  /\ UNCHANGED <<args, orchVars, loadVars>>

NextFuzzy == CallFindFileByFuzzyMatch

SpecFuzzy == InitFuzzy /\ [][NextFuzzy]_vars

\* ------------------------------------- audioAnalysisService: loadEssentia
\* A promise created by loadEssentia is named by its place in attempts; its
\* body (the async executor) is at pc, the promise itself is pending,
\* resolved with the instance in value, or rejected.  An Essentia instance
\* is named by the attempt that constructed it.
NewAttempt == [pc |-> "wasmScript", promise |-> "pending", value |-> 0]

\* a loadEssentia that does not look at loadingPromise
pendingLoadIgnored(lp) == FALSE

\* if (loadingPromise), audioAnalysisService.js 31
pendingLoad(lp) == lp # 0

\* what a caller that awaits promise n has once the promise is as in att
Awaiting(n, att) ==
  CASE att.promise = "resolved" -> [pc |-> "returned", got |-> att.value]
    [] att.promise = "rejected" -> [pc |-> "rejected", got |-> 0]
    [] OTHER -> [pc |-> "awaiting", got |-> n]

\* the callers after promise n has become att
Settle(n, att) ==
  [c \in Callers |->
     IF callers[c].pc = "awaiting" /\ callers[c].got = n
     THEN Awaiting(n, att) ELSE callers[c]]

\* loadEssentia() is called (audioAnalysisService.js 26-36, 72)
CallLoadEssentia(c) ==
  /\ callers[c].pc = "idle"
  /\ IF isEssentiaLoaded /\ essentia # 0
     THEN /\ callers' = [callers EXCEPT
                           ![c] = [pc |-> "returned", got |-> essentia]]
          /\ UNCHANGED <<loadingPromise, attempts, scripts>>
     ELSE IF pendingLoad(loadingPromise)
     THEN /\ callers' = [callers EXCEPT
                           ![c] = Awaiting(loadingPromise,
                                           attempts[loadingPromise])]
          /\ UNCHANGED <<loadingPromise, attempts, scripts>>
     ELSE /\ loadingPromise' = Len(attempts) + 1
          /\ attempts' = Append(attempts, NewAttempt)
          /\ scripts' = Append(scripts, "/essentia-wasm.web.js")
          /\ callers' = [callers EXCEPT
                           ![c] = [pc |-> "awaiting",
                                   got |-> Len(attempts) + 1]]
  /\ UNCHANGED <<essentia, isEssentiaLoaded, args, ret, orchVars>>

\* a script element fires onload (audioAnalysisService.js 45-59)
ScriptLoads(n) ==
  /\ n \in 1..Len(attempts)
  /\ \/ /\ attempts[n].pc = "wasmScript"
        /\ attempts' = [attempts EXCEPT ![n].pc = "coreScript"]
        /\ scripts' = Append(scripts, "/essentia.js-core.js")
     \/ /\ attempts[n].pc = "coreScript"
        /\ attempts' = [attempts EXCEPT ![n].pc = "EssentiaWASM"]
        /\ UNCHANGED scripts
  /\ UNCHANGED <<essentia, isEssentiaLoaded, loadingPromise, callers, args,
                 ret, orchVars>>

\* a script element fires onerror: the promise is rejected, and the body
\* stays at its await for good (audioAnalysisService.js 47, 57)
ScriptFails(n) ==
  /\ n \in 1..Len(attempts)
  /\ attempts[n].pc \in {"wasmScript", "coreScript"}
  /\ attempts' = [attempts EXCEPT ![n].pc = "hung", ![n].promise = "rejected"]
  /\ callers' = Settle(n, attempts'[n])
  /\ UNCHANGED <<essentia, isEssentiaLoaded, loadingPromise, scripts, args,
                 ret, orchVars>>

\* window.EssentiaWASM() settles and new window.Essentia runs
\* (audioAnalysisService.js 60-69)
ResumeEssentiaWASM(n, ok) ==
  /\ n \in 1..Len(attempts)
  /\ attempts[n].pc = "EssentiaWASM"
  /\ IF ok
     THEN /\ essentia' = n
          /\ isEssentiaLoaded' = TRUE
          /\ attempts' = [attempts EXCEPT ![n].pc = "end",
                                          ![n].promise = "resolved",
                                          ![n].value = n]
     ELSE /\ attempts' = [attempts EXCEPT ![n].pc = "end",
                                          ![n].promise = "rejected"]
          /\ UNCHANGED <<essentia, isEssentiaLoaded>>
  /\ callers' = Settle(n, attempts'[n])
  /\ UNCHANGED <<loadingPromise, scripts, args, ret, orchVars>>

NextLoad ==
  \/ \E c \in Callers : CallLoadEssentia(c)
  \/ \E n \in Callers : ScriptLoads(n)
  \/ \E n \in Callers : ScriptFails(n)
  \/ \E n \in Callers, ok \in BOOLEAN : ResumeEssentiaWASM(n, ok)

InitLoad == Idle /\ NotLoaded /\ args = NoArgs /\ ret = NoRet

SpecLoad == InitLoad /\ [][NextLoad]_vars

\* ------------------------------------------ the player stays on a track
\* The player moved from track A to track B while the first acquisition,
\* for A, holds the lock, and stays on B: every poll from here on reports B.
TrackA == 1
TrackB == 2

\* the state Spec reaches by PollTrackChange(TrackA) and the timer
InitStay ==
  /\ currentTrackIdRef = TrackA
  /\ isProcessingRef = TRUE
  /\ trackChangeTimerRef = 0
  /\ timers = {}
  /\ analysisData = NoData
  /\ isAnalyzing = TRUE
  /\ currentProcessingTrack = ""
  /\ lastCompletedTrack = ""
  /\ processingLock = FALSE
  /\ apiBlocked = FALSE
  /\ lastApiCallTime = 0
  /\ windowElapsed = 0
  /\ localStorage = [k \in Keys |-> NoEntry]
  /\ memoryCache = [k \in Keys |-> NoEntry]
  /\ mp3Files \in SUBSET {KeyOf(TrackA)}
  /\ analysisFiles \in SUBSET {KeyOf(TrackA)}
  /\ acq = [g \in Gens |->
              IF g = 1
              THEN [track |-> TrackA, pc |-> "getCachedAnalysis",
                    calls |-> {"getCachedAnalysis"}, epoch |-> 0,
                    res |-> FALSE]
              ELSE NoAcq]
  /\ gen = 1
  /\ holder = [NoHolder EXCEPT !.proc = 1, !.analyzing = 1]
  /\ event = Ev("start", 1)
  /\ args = NoArgs
  /\ ret = NoRet
  /\ NotLoaded

\* the 1 Hz poll (App.js 276-278) while the player is on B
PollStay ==
  \/ PollTrackChange(TrackB)
  \/ PollTrackChangeLocked(TrackB)
  \/ PollSameTrack(TrackB)

NextStay ==
  \/ PollStay
  \/ Timer
  \/ Pipeline
  \/ WindowElapses

\* polling continues (setInterval), armed timers fire, every awaited call
\* of an acquisition is answered, and time passes
SpecStay ==
  /\ InitStay
  /\ [][NextStay]_vars
  /\ WF_vars(PollStay)
  /\ WF_vars(Timer)
  /\ WF_vars(Pipeline)
  /\ WF_vars(WindowElapses)

\* ------------------------------ audioAnalysisService: the pitch worker
\* Memory is a heap of ArrayBuffers, each with its samples and whether it
\* has been detached; a typed array is a view that names its buffer.
MaxSignal == 4          \* samples in the mono signal
Samples == {0, 1, 2}

\* what a typed array reads: nothing once its buffer is detached
Contents(heap, view) ==
  IF heap[view.buffer].detached THEN <<>> ELSE heap[view.buffer].data

\* a typed array made as a view of the source's own buffer
Float32ArrayShared(heap, source) == [heap |-> heap, view |-> source]

\* new Float32Array(typedArray): a new buffer holding a copy of the elements
\* (audioAnalysisService.js 335, and 109 for the mono signal)
Float32Array(heap, source) ==
  [heap |-> Append(heap, [data |-> Contents(heap, source),
                          detached |-> FALSE]),
   view |-> [buffer |-> Len(heap) + 1]]

\* postMessage(message, transfer): the listed buffers are detached here
transfer(heap, buffers) ==
  [b \in 1..Len(heap) |->
     IF b \in buffers THEN [data |-> <<>>, detached |-> TRUE] ELSE heap[b]]

\* extractPitch(audioSignal) up to its postMessage (334-339): the heap
\* afterwards, what the worker receives, and the buffer handed over
postToWorker(heap, audioSignal) ==
  LET audioArray == Float32Array(heap, audioSignal)
  IN  [heap |-> transfer(audioArray.heap, {audioArray.view.buffer}),
       posted |-> Contents(audioArray.heap, audioArray.view),
       transferred |-> audioArray.view.buffer]

\* analyzeAudio 415-454 on a decoded signal: the mono signal is made, the
\* pitch worker is handed its input, then mel and chroma read monoSignal
pitchThenFrames(signal) ==
  LET monoSignal == [buffer |-> 1]
      heap == <<[data |-> signal, detached |-> FALSE]>>
      sent == postToWorker(heap, monoSignal)
  IN  [fn |-> "extractPitch",
       worker |-> sent.posted,
       transferred |-> sent.transferred,
       monoBuffer |-> monoSignal.buffer,
       detached |-> {b \in 1..Len(sent.heap) : sent.heap[b].detached},
       melReads |-> Contents(sent.heap, monoSignal),
       chromaReads |-> Contents(sent.heap, monoSignal)]

InitTransfer ==
  /\ Idle
  /\ NotLoaded
  /\ args \in [fn : {"extractPitch"}, signal : SeqsUpTo(MaxSignal, Samples)]
  /\ ret = NoRet

CallExtractPitch ==
  /\ args.fn = "extractPitch"
  /\ ret = NoRet
  /\ ret' = pitchThenFrames(args.signal)
  /\ UNCHANGED <<args, orchVars, loadVars>>

NextTransfer == CallExtractPitch

SpecTransfer == InitTransfer /\ [][NextTransfer]_vars

\* ------------------------------------------------------------ claims
\* the acquisition g takes this step
Acts(g) == event'.g = g /\ event'.kind \in PipelineKinds

\* a timeline is handed to the renderer in this step
Publishes == analysisData' # analysisData /\ analysisData' # NoData

\* C1: across every interleaving of polls, timer firings and completions
\* of asynchronous steps, at most one acquisition pipeline is in flight.
C1_SingleFlight == Cardinality(InFlight) <= 1

\* C2: whenever a timeline is published, the acquisition that produced it
\* is for the orchestrator's current track and no track-change or no-track
\* event was accepted since it started, on every publishing path.
C2_PublishesOnlyCurrent ==
  [][Publishes =>
       /\ analysisData'.track = currentTrackIdRef'
       /\ analysisData'.gen = gen']_vars

\* C3: an acquisition that finds itself superseded when an asynchronous
\* step resumes (its shouldContinue or track-id check fails) aborts without
\* clearing isProcessingRef, processingLock, isAnalyzing or
\* currentProcessingTrack that another, newer acquisition has set.
C3_StaleLeavesFlags ==
  [][\A g \in Gens :
       (Acts(g) /\ event'.kind = "stale") =>
         /\ (holder.proc > g => isProcessingRef')
         /\ (holder.analyzing > g => isAnalyzing')
         /\ (holder.lock > g => processingLock')
         /\ (holder.cpt > g =>
               currentProcessingTrack' = currentProcessingTrack)]_vars

C3_StaleAbortSeen == event.kind = "stale" /\ InFlight # {}

\* C4: when a track change for B is accepted while the debounce timer of A
\* is still pending, the acquisition for A never starts, so it writes to no
\* cache and publishes nothing; the one acquisition that then runs is B's.
C4_SupersededDebounceNeverRuns ==
  [][\A g \in Gens :
       (acq[g].pc = "debouncing" /\ g < gen') =>
         /\ acq'[g] = acq[g]
         /\ analysisData'.gen # g]_vars

\* A (track 1) then B (track 2) within the window; B's acquisition went
\* through the whole pipeline and published, A's never left the debounce
C4_OnlyBCompleted ==
  /\ gen = 2
  /\ acq[1] = [NoAcq EXCEPT !.pc = "debouncing", !.track = 1]
  /\ acq[2].pc = "done"
  /\ analysisData = [track |-> 2, gen |-> 2, src |-> "pipeline"]
  /\ event.kind = "published"

\* C5 as stated: every track-change event seen by the poll, also one seen
\* while the lock is held, supersedes what is in flight, releases the lock,
\* cancels the pending timer and restarts debouncing.
C5_EveryTrackChangeRestarts ==
  [][event'.kind \in {"trackChange", "trackChangeLocked"} =>
       /\ gen' = gen + 1
       /\ ~isProcessingRef'
       /\ ~processingLock'
       /\ trackChangeTimerRef' = gen'
       /\ \A tm \in timers' : tm.h = gen']_vars

\* C5 amended: a track change the poll sees while isProcessingRef is false
\* makes the new track current, clears the published timeline, resets the
\* service's processing state, cancels the pending timer and restarts
\* debouncing for the new track.
C5_UnlockedTrackChangeRestarts ==
  [][event'.kind = "trackChange" =>
       /\ ~isProcessingRef /\ ~isProcessingRef'
       /\ gen' = gen + 1
       /\ currentTrackIdRef' # currentTrackIdRef
       /\ analysisData' = NoData
       /\ currentProcessingTrack' = ""
       /\ lastCompletedTrack' = ""
       /\ ~processingLock'
       /\ trackChangeTimerRef' = gen'
       /\ timers' = {[h |-> gen', track |-> currentTrackIdRef']}]_vars

\* a track change cancelled the previous pending timer
C5_TimerReplaced ==
  /\ event.kind = "trackChange"
  /\ gen >= 2
  /\ acq[gen - 1].pc = "debouncing"

\* C6: a trigger that arrives while the lock is held changes nothing: a
\* track change seen while isProcessingRef is true leaves the current track
\* id, the timer, the published timeline and the lock alone, and
\* getMP3ForTrack entered while processingLock is held returns null and
\* leaves currentProcessingTrack and the lock alone.
C6_LockedTriggerRejected ==
  [][/\ event'.kind = "trackChangeLocked" =>
          UNCHANGED <<currentTrackIdRef, trackChangeTimerRef, timers,
                      analysisData, isProcessingRef>>
     /\ event'.kind = "trackChange" => ~isProcessingRef
     /\ event'.kind = "rejected" =>
          /\ processingLock
          /\ UNCHANGED <<currentProcessingTrack, processingLock>>
     /\ \A g \in Gens :
          (acq[g].pc = "checkServerCache"
             /\ acq'[g].pc = "ytCheckServerCache") => ~processingLock]_vars

\* getMP3ForTrack was refused because another acquisition holds the lock
C6_RejectedByLock ==
  /\ event.kind = "rejected"
  /\ processingLock
  /\ holder.lock # 0

\* C7: an acquisition whose analysis-cache check hits publishes the cached
\* timeline and returns, having made no call but that check.
C7_AnalysisHitShortCircuits ==
  [][\A g \in Gens :
       /\ (Publishes /\ analysisData' = Timeline(g, "analysisCache")) =>
            /\ acq[g].calls = {"getCachedAnalysis"}
            /\ acq'[g] = DoneAcq
            /\ KeyOf(acq[g].track) \in analysisFiles
       /\ (acq[g].pc = "getCachedAnalysis" /\ acq'[g].pc = "done") =>
            analysisData' = Timeline(g, "analysisCache")
       /\ acq[g].pc = "done" => acq'[g] = DoneAcq]_vars

\* the current track's timeline came from the analysis cache
C7_PublishedFromAnalysisCache ==
  /\ event.kind = "published"
  /\ analysisData.src = "analysisCache"
  /\ analysisData.gen = gen
  /\ analysisData.track = currentTrackIdRef

\* C8: an acquisition whose analysis check misses and whose MP3-cache check
\* hits calls neither the YouTube resolver nor the download endpoint, runs
\* analyzeAudio on the cached MP3 and publishes only after it.
C8_Mp3HitSkipsYoutube ==
  [][\A g \in Gens :
       /\ (acq'[g].pc = "analyzeCached" /\ acq[g].pc # "analyzeCached") =>
            /\ acq[g].pc = "checkServerCache"
            /\ KeyOf(acq[g].track) \in mp3Files
            /\ acq'[g].calls \ {"cacheError"} =
                 {"getCachedAnalysis", "checkServerCache", "analyzeCached"}
       /\ (acq[g].pc = "analyzeCached" /\ acq'[g] # acq[g]) =>
            acq'[g] = DoneAcq
       /\ (Publishes /\ analysisData' = Timeline(g, "cachedMp3")) =>
            acq[g].pc = "analyzeCached"
       /\ (acq[g].pc = "ytCheckServerCache" /\ acq'[g].pc = "analyzeAudio") =>
            /\ KeyOf(acq[g].track) \in mp3Files
            /\ acq'[g].calls \cap {"youtubeFetch", "rateLimitWait", "getMP3"}
                 = {}]_vars

\* the current track's timeline was extracted from a cached MP3
C8_PublishedFromCachedMp3 ==
  /\ event.kind = "published"
  /\ analysisData.src = "cachedMp3"
  /\ analysisData.gen = gen
  /\ analysisData.track = currentTrackIdRef

\* C9: once apiBlocked is set it stays set, and no YouTube API request is
\* issued any more, by a later or by a still-in-flight searchVideo.
C9_NoRequestAfterBlock ==
  [][apiBlocked =>
       /\ apiBlocked'
       /\ lastApiCallTime' = lastApiCallTime]_vars

\* C10: an acquisition that fails because the resolver is blocked (its cache
\* checks answered) finds no entry for its track in the analysis cache, the
\* MP3 cache, localStorage or the memory cache.
C10_BlockedFailsOnlyWithoutCache ==
  [][\A g \in Gens :
       (Acts(g) /\ event'.kind = "blocked") =>
         LET key == KeyOf(acq[g].track) IN
         /\ key \notin analysisFiles
         /\ key \notin mp3Files
         /\ localStorage[key] = NoEntry
         /\ memoryCache[key] = NoEntry]_vars

\* C11: a YouTube API request is issued through rateLimitedFetch only when
\* the 2000 ms window of the request before it has passed, also when the
\* searchVideo calls overlap.
C11_RequestsSpaced ==
  [][lastApiCallTime' # lastApiCallTime =>
       windowElapsed = lastApiCallTime]_vars

NearBeats ==
  {i \in 0..(Len(args.analysisData.beats) - 1) :
     Abs(args.timeInSeconds - args.analysisData.beats[i + 1]) < tolerance}

\* C13: whenever some beat lies within the tolerance of the query time, the
\* beat reported (beatIndex) is the beat nearest to the query time, also
\* when several beats lie within the tolerance.
C13_NearestBeat ==
  (ret.fn = "getAnalysisAtTime" /\ NearBeats # {}) =>
    /\ ret.onBeat
    /\ ret.beatIndex \in NearBeats
    /\ \A j \in NearBeats :
         Abs(args.timeInSeconds - args.analysisData.beats[ret.beatIndex + 1])
           <= Abs(args.timeInSeconds - args.analysisData.beats[j + 1])

\* C14: a result that selects the beat at index i at distance d has onBeat
\* true, beatIndex i and strength 1 - d / tolerance, times 1.5 exactly when
\* i mod 4 = 0; with no beat within the tolerance it has onBeat false and
\* strength 0.  Beats at 0, 0.5, 1.0, 1.5 s: 1.02 s gives index 2 and
\* strength 0.6 (6 units of 1/10), 0.2 s gives no beat.
C14_BeatStrength ==
  ret.fn = "getAnalysisAtTime" =>
    /\ IF NearBeats = {}
       THEN ~ret.onBeat /\ ret.beatStrength = 0 /\ ret.beatIndex = NoBeat
       ELSE LET i == ret.beatIndex
                d == Abs(args.timeInSeconds - args.analysisData.beats[i + 1])
            IN  /\ ret.onBeat
                /\ i \in NearBeats
                /\ ret.beatStrength =
                     IF i % 4 = 0 THEN 3 * (tolerance - d)
                     ELSE 2 * (tolerance - d)
    /\ (args.analysisData.beats = <<0, 50, 100, 150>>
          /\ args.timeInSeconds = 102) =>
         (ret.beatIndex = 2 /\ ret.beatStrength * 10 = 6 * (2 * tolerance))
    /\ (args.analysisData.beats = <<0, 50, 100, 150>>
          /\ args.timeInSeconds = 20) => ~ret.onBeat

\* the query of the example, and one that selects the fifth beat
C14_ExampleAnswered ==
  /\ ret.fn = "getAnalysisAtTime"
  /\ args.analysisData.beats = <<0, 50, 100, 150>>
  /\ args.timeInSeconds = 102
  /\ ret.onBeat /\ ret.beatIndex = 2 /\ ret.beatStrength = 6

RECURSIVE SumSeq(_)
SumSeq(q) == IF q = <<>> THEN 0 ELSE Head(q) + SumSeq(Tail(q))

\* C15: for every duration D and list of raw beats, extractRhythm returns
\* exactly the raw beats with time <= D, and the beat counts of its density
\* buckets sum to the number of beats returned.
C15_DensitySumsToBeats ==
  ret.fn = "extractRhythm" =>
    /\ ret.beats = SelectSeq(args.rawBeats, LAMBDA t : t <= args.duration)
    /\ SumSeq(ret.beatDensity) = Len(ret.beats)

\* C16: a chroma frame has exactly 12 values, and when its window has
\* in-band spectral energy, however small, all 12 lie in [0,1] and at
\* least one of them is 1.0.
C16_ChromaNormalized ==
  ret.fn = "extractHPCPChroma" =>
    /\ DOMAIN ret.chroma = PitchClasses
    /\ Cardinality(DOMAIN ret.chroma) = 12
    /\ args.bins # <<>> =>
         /\ \A pc \in PitchClasses :
              /\ 0 <= ret.chroma[pc].num
              /\ ret.chroma[pc].num <= ret.chroma[pc].den
         /\ \E pc \in PitchClasses :
              ret.chroma[pc].num = ret.chroma[pc].den

\* frame indices below floor(duration / 0.1) whose window starting at
\* round(i * 0.1 * R) lies inside the signal
FittingFrames ==
  LET n == args.audioSignal.length
      rate == args.audioSignal.sampleRate
  IN  {i \in 0..((10 * n) \div rate - 1) :
         (2 * i * rate + 10) \div 20 + 2048 <= n}

\* C17: extractMelSpectrogram emits one 40-band frame for each index below
\* floor(duration / 0.1) whose 2048-sample window lies inside the signal,
\* none from the first window that does not fit on (the frames are those of
\* indices 0 .. Len - 1, and these are exactly the fitting indices), with
\* strictly ascending times; 180 s at 44100 Hz give 1800 frames.
C17_MelFrames ==
  ret.fn = "extractMelSpectrogram" =>
    LET F == ret.frames IN
    /\ FittingFrames = 0..(Len(F) - 1)
    /\ \A k \in 1..Len(F) :
         /\ F[k].time = (k - 1) * 10
         /\ F[k].bands = 40
         /\ k > 1 => F[k - 1].time < F[k].time
    /\ (args.audioSignal = [length |-> 7938000, sampleRate |-> 44100]) =>
         Len(F) = 1800

\* C18: whichever of the four extractors fail, and however the pitch
\* worker fails, analyzeAudio of audio that can be fetched and decoded
\* returns a timeline in which exactly the failed features are empty and
\* every other feature is what its extractor returned.
C18_PartialTimeline ==
  (ret.fn = "analyzeAudio" /\ args.audio = "ok") =>
    /\ ret.status = "returned"
    /\ \A f \in Extractors :
         ret.features[f] =
           IF f \in args.fails THEN Initial(f) ELSE Extracted(f)

\* the pitch worker reported an error and mel failed; the rest is there
C18_PitchAndMelFailed ==
  /\ ret.fn = "analyzeAudio"
  /\ args.audio = "ok"
  /\ args.fails = {"pitch", "melSpectrogram"}
  /\ args.pitchFailure = "error"
  /\ ret.status = "returned"
  /\ ret.features.pitch = <<>>
  /\ ret.features.melSpectrogram = <<>>
  /\ ret.features.rhythm = Extracted("rhythm")
  /\ ret.features.hpcpChroma = Extracted("hpcpChroma")

\* C19: when analyzeAudio throws because the audio cannot be fetched or
\* decoded, the acquisition ends, it publishes no timeline, and what the
\* consumer is handed (analysisData, isAnalyzing) shows a failure: it
\* differs from what it is handed when nothing was attempted.
C19_FailureVisible ==
  [][\A g \in Gens :
       (Acts(g) /\ event'.kind = "failed") =>
         /\ acq'[g] = DoneAcq
         /\ analysisData' = analysisData
         /\ <<analysisData', isAnalyzing'>> # <<NoData, FALSE>>]_vars

\* C20: an MP3 stored in the server cache stays there (check-mp3-cache
\* keeps reporting a hit for its track) through every later acquisition
\* of another track; no step of an acquisition removes a stored MP3.
C20_StoredMp3Stays ==
  [][\A k \in Keys : (k \in mp3Files) => (k \in mp3Files')]_vars

\* C21: while the resolver is not blocked, a searchVideo for a track whose
\* YouTube URL was cached less than 7 days ago returns without issuing an
\* API request, and when the only entries are older than 7 days (or there
\* is none) the search goes to the API instead of returning one of them.
C21_UrlCacheSevenDays ==
  [][\A g \in Gens :
       LET key == KeyOf(acq[g].track) IN
       (/\ acq[g].pc = "ytCheckServerCache"
        /\ acq'[g] # acq[g]
        /\ key \notin mp3Files
        /\ ~apiBlocked) =>
         /\ (localStorage[key] = 0 \/ memoryCache[key] = 0) =>
              /\ lastApiCallTime' = lastApiCallTime
              /\ acq'[g].pc \in {"getMP3", "done"}
              /\ event'.kind \in {"step", "stale"}
         /\ (/\ localStorage[key] \in {NoEntry, 2}
             /\ memoryCache[key] \in {NoEntry, 2}) =>
              acq'[g].pc \in {"rateLimitWait", "youtubeFetch"}]_vars

\* a search answered from the URL cache: the acquisition is at the download
\* without having asked the API, its URL entry being younger than 7 days
C21_AnsweredFromCache ==
  \E g \in Gens :
    /\ acq[g].pc = "getMP3"
    /\ "youtubeFetch" \notin acq[g].calls
    /\ ~apiBlocked
    /\ memoryCache[KeyOf(acq[g].track)] = 0

\* C22: an acquisition is started only by an observed change of trackId.
\* A pipeline starts only from the debounce timer of its own track-change
\* event; a timer is armed only by a poll that changes the current track
\* id; a poll that reports the current track again arms no timer and
\* starts nothing; and an acquisition that has ended is never run again.
C22_OnlyTrackChangeStarts ==
  [][/\ event'.kind = "start" =>
          /\ acq[event'.g].pc = "debouncing"
          /\ [h |-> event'.g, track |-> acq[event'.g].track] \in timers
     /\ (timers' \ timers # {}) =>
          /\ event'.kind = "trackChange"
          /\ currentTrackIdRef' # currentTrackIdRef
          /\ timers' \ timers = {[h |-> gen', track |-> currentTrackIdRef']}
     /\ event'.kind = "sameTrack" =>
          /\ timers' = timers
          /\ acq' = acq
     /\ \A g \in Gens : acq[g].pc = "done" => acq'[g].pc = "done"]_vars

\* an acquisition has failed, nothing is running or armed, no timeline is
\* shown, and a later poll has reported the same track
C22_SameTrackAfterFailure ==
  /\ event.kind = "sameTrack"
  /\ currentTrackIdRef # 0
  /\ \E g \in Gens : acq[g].pc = "done"
  /\ \A g \in Gens : acq[g].pc \in {"idle", "done"}
  /\ timers = {}
  /\ analysisData = NoData

\* the keywords of the requested artist and song that a file name contains
SharedKeywords(file, artist, song) ==
  matches(file, extractKeywords(artist) \o extractKeywords(song))

\* C23: the fuzzy fallback of the cache lookups never returns a file that
\* shares no keyword with the requested artist and song; when neither the
\* artist nor the song yields a keyword, the lookup reports a miss.
C23_FuzzySharesKeyword ==
  (ret.fn = "findFileByFuzzyMatch" /\ ret.file # NoFile) =>
    SharedKeywords(ret.file, args.artist, args.song) # <<>>

\* C24: after a loadEssentia attempt has failed, a later loadEssentia call
\* starts a fresh load attempt (a new promise, the scripts injected again)
\* instead of handing its caller the earlier failure.
C24_RetryAfterFailedLoad ==
  [][\A c \in Callers :
       (/\ callers[c].pc = "idle"
        /\ callers'[c].pc # "idle"
        /\ loadingPromise # 0
        /\ attempts[loadingPromise].promise = "rejected") =>
         /\ Len(attempts') = Len(attempts) + 1
         /\ callers'[c].pc = "awaiting"]_vars

\* attempts whose body has called window.EssentiaWASM()
Initialized ==
  {n \in 1..Len(attempts) : attempts[n].pc \in {"EssentiaWASM", "end"}}

\* C29: however loadEssentia calls overlap, each of the two scripts is
\* injected at most once, the Essentia module is initialized at most once,
\* and every caller that was given an instance was given the same one.
C29_LoadedOnce ==
  /\ Len(SelectSeq(scripts, LAMBDA src : src = "/essentia-wasm.web.js")) <= 1
  /\ Len(SelectSeq(scripts, LAMBDA src : src = "/essentia.js-core.js")) <= 1
  /\ Cardinality(Initialized) <= 1
  /\ \A c \in Callers :
       callers[c].pc = "returned" => callers[c].got = essentia /\ essentia # 0

\* every caller has called and waits for the one load, which has injected both
\* scripts and is initializing the module
C29_AllCallersOneLoad ==
  /\ \A c \in Callers : callers[c].pc = "awaiting"
  /\ Len(scripts) = 2
  /\ Cardinality(Initialized) = 1

\* C25: the isAnalyzing flag handed to the renderer is true exactly while
\* an acquisition is in flight, after any sequence of track changes,
\* no-track polls and stale completions.
C25_AnalyzingIffInFlight == isAnalyzing <=> (InFlight # {})

\* C26: the single-flight lock is never left held with no acquisition in
\* flight: when every acquisition has returned, isProcessingRef and
\* processingLock are both false.
C26_LocksReleased ==
  (InFlight = {}) => (~isProcessingRef /\ ~processingLock)

\* every acquisition has returned, the last of them through the return of
\* App.js 198 that releases nothing (isAnalyzing is still set), and both
\* locks are free
C26_StaleReturnLeavesLocksFree ==
  /\ InFlight = {}
  /\ event.kind = "stale"
  /\ isAnalyzing
  /\ ~isProcessingRef
  /\ ~processingLock

\* C27: if the player moves to track B while an acquisition for track A
\* holds the lock and then stays on B, then, A's acquisition terminating
\* and polling continuing, an acquisition for B eventually starts: a poll
\* of B rejected for the lock leads to the start of a pipeline for B.
C27_RejectedTrackEventuallyStarts ==
  (event.kind = "trackChangeLocked") ~>
    (\E g \in Gens : acq[g].track = TrackB /\ g \in InFlight)

\* A's acquisition has returned and the pipeline for B has just started
C27_StartedAfterRelease ==
  /\ acq[1] = DoneAcq
  /\ currentTrackIdRef = TrackB
  /\ event = Ev("start", 2)
  /\ acq[2].track = TrackB
  /\ isProcessingRef

\* C28: at most one debounce timer is pending at any time, and no timer is
\* pending after a poll that reports no track playing.
C28_OneTimerPending ==
  [][/\ Cardinality(timers') <= 1
     /\ event'.kind = "noTrack" => timers' = {}]_vars

\* a no-track poll has cancelled the timer armed by the track change
\* before it: the acquisition it would have started is still debouncing
C28_NoTrackCancelledTimer ==
  /\ event.kind = "noTrack"
  /\ timers = {}
  /\ \E g \in Gens : acq[g].pc = "debouncing" /\ g = event.g - 1

\* C30: handing the signal to the pitch worker leaves the caller's mono
\* signal intact: the buffer whose ownership moves to the worker is not the
\* one the mel and chroma extractors read afterwards, and they still see
\* the full signal (as does the worker).
C30_MonoSignalIntact ==
  (ret.fn = "extractPitch") =>
    /\ ret.transferred # ret.monoBuffer
    /\ ret.monoBuffer \notin ret.detached
    /\ ret.melReads = args.signal
    /\ ret.chromaReads = args.signal
    /\ ret.worker = args.signal

\* a signal of several samples was handed over: the copy's buffer is
\* detached and the mono signal still reads in full
C30_CopyTransferred ==
  /\ ret.fn = "extractPitch"
  /\ args.signal = <<1, 2, 0>>
  /\ ret.detached = {ret.transferred}
  /\ ret.melReads = <<1, 2, 0>>

====
